---- MODULE Spec2Model ----
(***************************************************************************)
(* Checkpoint tree viewer (CheckpointTreeViewer.tsx): the duration         *)
(* classifier formatDuration, the TreeNode expand/collapse state machine,  *)
(* the normalisation processNode and the data sources of the three views.  *)
(*                                                                         *)
(* Text is modelled as a sequence of one-character strings, so that        *)
(* includes, replace, parseFloat and toFixed are computed character by     *)
(* character.  The numbers of formatDuration are IEEE doubles: a 53-bit     *)
(* significand and a binary exponent, every operation rounded to nearest.  *)
(***************************************************************************)
EXTENDS Integers, Sequences, FiniteSets, TLC

\* ------------------------------------------------------------------ text

Digit == {"0", "1", "2", "3", "4", "5", "6", "7", "8", "9"}

DigitVal(c) ==
  CASE c = "0" -> 0 [] c = "1" -> 1 [] c = "2" -> 2 [] c = "3" -> 3
    [] c = "4" -> 4 [] c = "5" -> 5 [] c = "6" -> 6 [] c = "7" -> 7
    [] c = "8" -> 8 [] c = "9" -> 9

DigitChar(d) ==
  CASE d = 0 -> "0" [] d = 1 -> "1" [] d = 2 -> "2" [] d = 3 -> "3"
    [] d = 4 -> "4" [] d = 5 -> "5" [] d = 6 -> "6" [] d = 7 -> "7"
    [] d = 8 -> "8" [] d = 9 -> "9"

\* The decimal digits of a natural number, most significant first.
RECURSIVE NatText(_)
NatText(n) == IF n < 10 THEN <<DigitChar(n)>>
              ELSE NatText(n \div 10) \o <<DigitChar(n % 10)>>

\* The k low decimal digits of n, zero padded.
RECURSIVE PadText(_, _)
PadText(n, k) == IF k = 0 THEN <<>>
                 ELSE PadText(n \div 10, k - 1) \o <<DigitChar(n % 10)>>

\* s has sub at position i.
MatchAt(s, sub, i) ==
  /\ i >= 1
  /\ i + Len(sub) - 1 <= Len(s)
  /\ \A j \in 1..Len(sub) : s[i + j - 1] = sub[j]

\* String.prototype.includes
Includes(s, sub) == \E i \in 1..(Len(s) + 1) : MatchAt(s, sub, i)

\* First position of sub in s, 0 when there is none (String.prototype.indexOf + 1).
IndexOf(s, sub) ==
  IF Includes(s, sub)
  THEN CHOOSE i \in 1..(Len(s) + 1) :
         MatchAt(s, sub, i) /\ \A j \in 1..(i - 1) : ~MatchAt(s, sub, j)
  ELSE 0

\* String.prototype.replace with a string pattern: the first occurrence only.
ReplaceFirst(s, sub, rep) ==
  LET i == IndexOf(s, sub)
  IN IF i = 0 THEN s
     ELSE SubSeq(s, 1, i - 1) \o rep \o SubSeq(s, i + Len(sub), Len(s))

\* replace(/<[^>]*>/g, ''): every "<" that has a ">" after it is removed up to
\* the nearest such ">"; a "<" with no ">" after it stays.
RECURSIVE StripTags(_)
StripTags(s) ==
  IF s = <<>> THEN <<>>
  ELSE IF Head(s) = "<" /\ Includes(Tail(s), <<">">>)
       THEN StripTags(SubSeq(s, IndexOf(Tail(s), <<">">>) + 2, Len(s)))
       ELSE <<Head(s)>> \o StripTags(Tail(s))

\* --------------------------------------------------------------- numbers

\* Naturals of any size, for the 53-bit significands of doubles: limbs in
\* base 2^15, the least significant first, the last one not zero.
Base == 2 ^ 15

RECURSIVE BigOf(_)
BigOf(n) == IF n = 0 THEN <<>> ELSE <<n % Base>> \o BigOf(n \div Base)

\* a * k + c, for 1 <= k < Base.
RECURSIVE BigMulAdd(_, _, _)
BigMulAdd(a, k, c) ==
  IF a = <<>> THEN BigOf(c)
  ELSE <<(a[1] * k + c) % Base>> \o BigMulAdd(Tail(a), k, (a[1] * k + c) \div Base)

BigDouble(a) == BigMulAdd(a, 2, 0)

\* a * 2^n
RECURSIVE BigShift(_, _)
BigShift(a, n) == IF n = 0 \/ a = <<>> THEN a ELSE BigShift(BigDouble(a), n - 1)

\* a * 10^n
RECURSIVE BigTimesPow10(_, _)
BigTimesPow10(a, n) ==
  IF n = 0 \/ a = <<>> THEN a ELSE BigTimesPow10(BigMulAdd(a, 10, 0), n - 1)

\* -1, 0 or 1 as the limbs 1..i of a are below, equal to or above those of b.
RECURSIVE BigCmpAt(_, _, _)
BigCmpAt(a, b, i) ==
  IF i = 0 THEN 0
  ELSE IF a[i] < b[i] THEN 0 - 1
  ELSE IF a[i] > b[i] THEN 1
  ELSE BigCmpAt(a, b, i - 1)

BigCmp(a, b) ==
  IF Len(a) < Len(b) THEN 0 - 1
  ELSE IF Len(a) > Len(b) THEN 1
  ELSE BigCmpAt(a, b, Len(a))

RECURSIVE BigTrim(_)
BigTrim(a) ==
  IF a # <<>> /\ a[Len(a)] = 0 THEN BigTrim(SubSeq(a, 1, Len(a) - 1)) ELSE a

RECURSIVE BigSubFrom(_, _, _, _)
BigSubFrom(a, b, i, borrow) ==
  IF i > Len(a) THEN <<>>
  ELSE LET d == a[i] - (IF i <= Len(b) THEN b[i] ELSE 0) - borrow
       IN <<IF d < 0 THEN d + Base ELSE d>>
            \o BigSubFrom(a, b, i + 1, IF d < 0 THEN 1 ELSE 0)

\* a - b, for a >= b.
BigSub(a, b) == BigTrim(BigSubFrom(a, b, 1, 0))

\* The value of the n decimal digits of s that start at position i.
RECURSIVE BigDigits(_, _, _)
BigDigits(s, i, n) ==
  IF n = 0 THEN <<>>
  ELSE BigMulAdd(BigDigits(s, i, n - 1), 10, DigitVal(s[i + n - 1]))

\* A Number of the language: NaN, zero, or a double (-1)^neg * m * 2^e with
\* 2^52 <= m < 2^53.  Its range is not modelled: no magnitude here comes near
\* the subnormal numbers or the overflow to Infinity.  The sign of zero is not
\* kept.
NaN  == [k |-> "nan", neg |-> FALSE, m |-> <<>>, e |-> 0]
Zero == [k |-> "zero", neg |-> FALSE, m |-> <<>>, e |-> 0]

\* p / q * 2^e rewritten with q <= p < 2q.
RECURSIVE Normalize(_, _, _)
Normalize(p, q, e) ==
  IF BigCmp(p, BigDouble(q)) >= 0 THEN Normalize(p, BigDouble(q), e + 1)
  ELSE IF BigCmp(p, q) < 0 THEN Normalize(BigDouble(p), q, e - 1)
  ELSE [e |-> e, p |-> p, q |-> q]

\* One more bit of the quotient st.m, st.rem / q being what is left of the
\* fraction.
DivideStep(st, q) ==
  IF BigCmp(BigDouble(st.rem), q) >= 0
  THEN [m |-> BigMulAdd(st.m, 2, 1), rem |-> BigSub(BigDouble(st.rem), q)]
  ELSE [m |-> BigDouble(st.m), rem |-> BigDouble(st.rem)]

\* n more bits; they are all zero once nothing is left.
RECURSIVE Divide(_, _, _)
Divide(st, q, n) ==
  IF n = 0 THEN st
  ELSE IF st.rem = <<>> THEN [m |-> BigShift(st.m, n), rem |-> <<>>]
  ELSE Divide(DivideStep(st, q), q, n - 1)

\* The double nearest to (-1)^neg * p / q * 2^e, a tie to the even significand:
\* the rounding of every arithmetic operation and of the reading of a numeral.
Round(neg, p, q, e) ==
  IF p = <<>> THEN Zero
  ELSE LET n    == Normalize(p, q, e)
           d    == Divide([m |-> <<1>>, rem |-> BigSub(n.p, n.q)], n.q, 52)
           half == BigCmp(BigDouble(d.rem), n.q)
           up   == half > 0 \/ (half = 0 /\ d.m[1] % 2 = 1)
           m1   == IF up THEN BigMulAdd(d.m, 1, 1) ELSE d.m
           over == m1 = BigShift(<<1>>, 53)
       IN [k |-> "num", neg |-> neg,
           m |-> IF over THEN BigShift(<<1>>, 52) ELSE m1,
           e |-> n.e - 52 + (IF over THEN 1 ELSE 0)]

\* The double of a natural number below 2^31.
Num(n) == Round(FALSE, BigOf(n), <<1>>, 0)

\* x * 1000 and x / 1000
Times1000(x) ==
  IF x.k = "num" THEN Round(x.neg, BigMulAdd(x.m, 1000, 0), <<1>>, x.e) ELSE x
Over1000(x) ==
  IF x.k = "num" THEN Round(x.neg, x.m, BigOf(1000), x.e) ELSE x

\* x >= t for a natural t in 1..2^15; false for NaN, as every comparison with
\* NaN is.  A positive double with e >= 0 is at least 2^52, one with e <= -64
\* is below 1.
AtLeast(x, t) ==
  /\ x.k = "num"
  /\ ~x.neg
  /\ \/ x.e >= 0
     \/ x.e > 0 - 64 /\ BigCmp(x.m, BigShift(BigOf(t), 0 - x.e)) >= 0

\* Length of the run of digits of s that starts at position i.
RECURSIVE DigitRun(_, _)
DigitRun(s, i) ==
  IF i <= Len(s) /\ s[i] \in Digit THEN 1 + DigitRun(s, i + 1) ELSE 0

\* Value of the n digits of s that start at position i.
RECURSIVE DigitsValue(_, _, _)
DigitsValue(s, i, n) ==
  IF n = 0 THEN 0
  ELSE 10 * DigitsValue(s, i, n - 1) + DigitVal(s[i + n - 1])

RECURSIVE SkipSpace(_, _)
SkipSpace(s, i) == IF i <= Len(s) /\ s[i] = " " THEN SkipSpace(s, i + 1) ELSE i

\* parseFloat on text: leading white space, an optional sign, digits with an
\* optional fraction, an optional exponent that has digits; what follows is
\* ignored, and text with no digit at the front gives NaN.  The result is the
\* double nearest to the numeral read.
parseFloat(s) ==
  LET b     == SkipSpace(s, 1)
      sign  == IF b <= Len(s) /\ s[b] \in {"+", "-"} THEN 1 ELSE 0
      neg   == b <= Len(s) /\ s[b] = "-"
      ip    == b + sign
      nInt  == DigitRun(s, ip)
      dot   == ip + nInt <= Len(s) /\ s[ip + nInt] = "."
      nFrac == IF dot THEN DigitRun(s, ip + nInt + 1) ELSE 0
      ep    == ip + nInt + (IF dot THEN 1 + nFrac ELSE 0)
      isE   == ep <= Len(s) /\ s[ep] \in {"e", "E"}
      esign == IF isE /\ ep + 1 <= Len(s) /\ s[ep + 1] \in {"+", "-"} THEN 1 ELSE 0
      eneg  == isE /\ ep + 1 <= Len(s) /\ s[ep + 1] = "-"
      nExp  == IF isE THEN DigitRun(s, ep + 1 + esign) ELSE 0
      exp   == DigitsValue(s, ep + 1 + esign, nExp)
      digits == SubSeq(s, ip, ip + nInt - 1)
                  \o SubSeq(s, ip + nInt + 1, ip + nInt + nFrac)
      whole == BigDigits(digits, 1, nInt + nFrac)
      e10   == (IF eneg THEN 0 - exp ELSE exp) - nFrac
  IN IF nInt + nFrac = 0 THEN NaN
     ELSE IF e10 >= 0 THEN Round(neg, BigTimesPow10(whole, e10), <<1>>, 0)
     ELSE Round(neg, whole, BigTimesPow10(<<1>>, 0 - e10), 0)

\* The number of a JSON document written with three decimals, t/1000, as
\* Number.prototype.toFixed(2) prints it: the sign of a negative number, then
\* its magnitude rounded to the nearest hundredth.  The double of t/1000 is
\* within 2^-53 of it, so the hundredth is that of t/1000 whenever t does not
\* end in 5; when it does, the double may lie on either side of the tie, and
\* no document of the model holds such a number.
\* A toFixed(2) that cuts the digits after the second decimal off.
toFixed2Truncating(t) ==
  LET a == IF t < 0 THEN 0 - t ELSE t
      h == a \div 10
  IN (IF t < 0 THEN <<"-">> ELSE <<>>)
       \o NatText(h \div 100) \o <<".">> \o PadText(h % 100, 2)

toFixed2(t) ==
  LET a == IF t < 0 THEN 0 - t ELSE t
      h == (a + 5) \div 10
  IN (IF t < 0 THEN <<"-">> ELSE <<>>)
       \o NatText(h \div 100) \o <<".">> \o PadText(h % 100, 2)

\* ----------------------------------------------------- duration values

\* The value of a node's duration field: a JSON value or undefined.  s is the
\* text of a string, n the thousandths of a number or the 0/1 of a boolean.
Undefined == [n |-> 0, k |-> "undefined", s |-> <<>>]
Null      == [n |-> 0, k |-> "null", s |-> <<>>]
Str(s)    == [n |-> 0, k |-> "string", s |-> s]
Number(t) == [n |-> t, k |-> "number", s |-> <<>>]
Bool(b)   == [n |-> IF b THEN 1 ELSE 0, k |-> "boolean", s |-> <<>>]

\* !v
Falsy(v) ==
  \/ v.k \in {"undefined", "null"}
  \/ v.k = "string" /\ v.s = <<>>
  \/ v.k \in {"number", "boolean"} /\ v.n = 0

ErrorWord  == <<"e", "r", "r", "o", "r">>
WarnWord   == <<"w", "a", "r", "n">>
OrangeWord == <<"o", "r", "a", "n", "g", "e">>

\* '<span class="TAG">' and '</span>'
SpanOpen(tag) ==
  <<"<", "s", "p", "a", "n", " ", "c", "l", "a", "s", "s", "=", "\"">>
    \o tag \o <<"\"", ">">>
SpanClose == <<"<", "/", "s", "p", "a", "n", ">">>

ClassError    == "text-red-600 font-bold"
ClassWarning  == "text-amber-500 font-bold"
ClassModerate == "text-orange-500 font-bold"
ClassNone     == ""

ErrorMs    == 1000
WarningMs  == 250
ModerateMs == 100

\* extractTimeInMs raises a TypeError: its argument is not text, so it has no
\* includes to call (line 50).
extractThrows(d) == d.k # "string"

\* extractTimeInMs of text: the magnitude in milliseconds.
extractTimeInMs(s) ==
  LET timeStr == StripTags(s)
      hasS    == Includes(timeStr, <<"s">>)
      hasMs   == Includes(timeStr, <<"m", "s">>)
      hasUs   == Includes(timeStr, <<"μ", "s">>)
      raw     == parseFloat(timeStr)
  IN IF hasS /\ ~hasMs /\ ~hasUs THEN Times1000(raw)
     ELSE IF hasMs THEN raw
     ELSE IF hasUs THEN Over1000(raw)
     ELSE IF raw.k = "nan" THEN Zero ELSE raw

Shown(text, className) ==
  [text |-> text, className |-> className, done |-> TRUE, throws |-> FALSE]
Thrown    == [text |-> <<>>, className |-> "", done |-> TRUE, throws |-> TRUE]
NotShown  == [text |-> <<>>, className |-> "", done |-> FALSE, throws |-> FALSE]

\* A classifier that strips the opening tag only.
UnwrapOpenOnly(s, tag) == ReplaceFirst(s, SpanOpen(tag), <<>>)

Unwrap(s, tag) == ReplaceFirst(ReplaceFirst(s, SpanOpen(tag), <<>>), SpanClose, <<>>)

\* A classifier whose thresholds are exclusive (> for >=).
ClassOfExclusive(ms) ==
  IF AtLeast(ms, ErrorMs) /\ ms # Num(ErrorMs) THEN ClassError
  ELSE IF AtLeast(ms, WarningMs) /\ ms # Num(WarningMs) THEN ClassWarning
  ELSE IF AtLeast(ms, ModerateMs) /\ ms # Num(ModerateMs) THEN ClassModerate
  ELSE ClassNone

\* The first comparison of lines 80-91 that holds decides the class.
ClassOf(ms) ==
  IF AtLeast(ms, ErrorMs) THEN ClassError
  ELSE IF AtLeast(ms, WarningMs) THEN ClassWarning
  ELSE IF AtLeast(ms, ModerateMs) THEN ClassModerate
  ELSE ClassNone

\* The marker branch of lines 66-75, for text.
MarkerOf(s) ==
  IF Includes(s, ErrorWord) THEN "error"
  ELSE IF Includes(s, WarnWord) THEN "warn"
  ELSE IF Includes(s, OrangeWord) THEN "orange"
  ELSE "none"

\* formatDuration throws: a value that is neither falsy nor text skips the
\* marker branch and reaches extractTimeInMs.
formatThrows(d) == ~Falsy(d) /\ extractThrows(d)

formatDuration(d) ==
  IF Falsy(d) THEN Shown(<<"0", "s">>, ClassNone)
  ELSE IF formatThrows(d) THEN Thrown
  ELSE IF MarkerOf(d.s) = "error"
       THEN Shown(Unwrap(d.s, ErrorWord), ClassError)
  ELSE IF MarkerOf(d.s) = "warn"
       THEN Shown(Unwrap(d.s, WarnWord), ClassWarning)
  ELSE IF MarkerOf(d.s) = "orange"
       THEN Shown(Unwrap(d.s, OrangeWord), ClassModerate)
  ELSE Shown(d.s, ClassOf(extractTimeInMs(d.s)))

\* ------------------------------------------------------------ tree data

\* A JSON object of the input: its title, name, duration and children fields.
\* children is absent ("undefined"), a sequence ("array") or a value that is
\* no sequence but has a length ("string": len is the length of that text).
NoChildren     == [k |-> "undefined", items |-> <<>>, len |-> 0]
Children(ns)   == [k |-> "array", items |-> ns, len |-> Len(ns)]
TextChildren(l) == [k |-> "string", items |-> <<>>, len |-> l]

Node(title, name, duration, children) ==
  [title |-> title, name |-> name, duration |-> duration, children |-> children]

UnnamedNode == <<"U", "n", "n", "a", "m", "e", "d", " ", "N", "o", "d", "e">>

\* A processNode that puts the unit behind a duration that is text as well.
RECURSIVE processNodeSuffixing(_)
processNodeSuffixing(node) ==
  [title    |-> node.title,
   name     |-> IF Falsy(node.name) THEN Str(UnnamedNode) ELSE node.name,
   duration |-> IF node.duration.k = "number"
                THEN Str(toFixed2(node.duration.n) \o <<"m", "s">>)
                ELSE IF node.duration.k = "string"
                THEN Str(node.duration.s \o <<"m", "s">>)
                ELSE node.duration,
   children |-> IF node.children.k = "array"
                THEN Children([i \in 1..Len(node.children.items) |->
                                 processNodeSuffixing(node.children.items[i])])
                ELSE node.children]

\* processNode on an object: a numeric duration becomes text, a missing name
\* is set, the elements of a children array are processed in turn.
RECURSIVE processNode(_)
processNode(node) ==
  [title    |-> node.title,
   name     |-> IF Falsy(node.name) THEN Str(UnnamedNode) ELSE node.name,
   duration |-> IF node.duration.k = "number"
                THEN Str(toFixed2(node.duration.n) \o <<"m", "s">>)
                ELSE node.duration,
   children |-> IF node.children.k = "array"
                THEN Children([i \in 1..Len(node.children.items) |->
                                 processNode(node.children.items[i])])
                ELSE node.children]

\* A parsed JSON document: one object, an array of objects, or a value that is
\* neither (a number, true, null).
ObjectDoc(n)  == [k |-> "object", nodes |-> <<n>>]
ArrayDoc(ns)  == [k |-> "array", nodes |-> ns]
ScalarDoc     == [k |-> "scalar", nodes |-> <<>>]

\* Array.isArray(data) ? data.map(processNode) : [processNode(data)], with the
\* TypeError that processNode raises on a value that is no object (the module
\* is strict code: setting a property of a primitive throws).
Processed(doc) ==
  IF doc.k = "scalar" THEN [throws |-> TRUE, data |-> <<>>]
  ELSE [throws |-> FALSE,
        data |-> [i \in 1..Len(doc.nodes) |-> processNode(doc.nodes[i])]]

\* A hasChildren that does not look at the length.
hasChildrenAnyLength(item) == item.children.k # "undefined"

\* hasChildren = item.children && item.children.length > 0
hasChildren(item) == item.children.k # "undefined" /\ item.children.len > 0

\* data && data.length > 0 in TreeViewContent, for the value setData was given.
HasItems(doc) == doc.k = "array" /\ Len(doc.nodes) > 0

\* The item a TreeNode at path p (child indices from the top) is given.
RECURSIVE ItemAt(_, _)
ItemAt(items, p) ==
  IF Len(p) = 1 THEN items[p[1]]
  ELSE ItemAt(items[p[1]].children.items, Tail(p))

\* ---------------------------------------------------- TreeNode instances

\* The TreeNode instances one render pass keeps or creates under `items`, given
\* the expanded flags `exp` of the instances that exist: every item of the
\* list, and the children of an instance that is expanded and has children.
\* item.children?.map of a value that is no array cannot be called.
RECURSIVE MountedUnder(_, _, _)
MountedUnder(items, prefix, exp) ==
  UNION { LET p == Append(prefix, i)
          IN {p} \cup
             (IF p \in DOMAIN exp /\ exp[p] /\ hasChildren(items[i])
                   /\ items[i].children.k = "array"
              THEN MountedUnder(items[i].children.items, p, exp)
              ELSE {})
        : i \in 1..Len(items) }

\* A render pass: kept instances keep their flag, new ones start at
\* useState(false).
RenderPass(items, exp) ==
  [p \in MountedUnder(items, <<>>, exp) |->
     IF p \in DOMAIN exp THEN exp[p] ELSE FALSE]

\* What one TreeNode draws: label, duration, toggle indicator, child list.
NodeView(item, expanded) ==
  [duration  |-> formatDuration(item.duration),
   label     |-> item.title,
   indicator |-> hasChildren(item),
   childList |-> expanded /\ hasChildren(item)]

\* The render of a TreeNode throws: formatDuration does, or the child list is
\* drawn from children that have no map.
NodeThrows(item, expanded) ==
  \/ formatThrows(item.duration)
  \/ expanded /\ hasChildren(item) /\ item.children.k # "array"

RenderThrows(items, exp) ==
  \E p \in DOMAIN exp : NodeThrows(ItemAt(items, p), exp[p])

Crash == [exp |-> <<>>, crashed |-> TRUE]

\* An effect with no dependency on expandAllState: it runs on mount only.
EffectsOnMountOnly(r, exp, changed) == DOMAIN r \ DOMAIN exp

\* The instances whose effect (lines 28-30) runs after the render r: an
\* instance after its first render, and every instance after a render in
\* which expandAllState differs from the one before (`changed`).
EffectsToRun(r, exp, changed) ==
  (DOMAIN r \ DOMAIN exp) \cup (IF changed THEN DOMAIN r ELSE {})

\* Render, then the effects, until nothing changes.
RECURSIVE Settle(_, _, _, _)
Settle(items, signal, exp, changed) ==
  LET r     == RenderPass(items, exp)
      toRun == EffectsToRun(r, exp, changed)
      r2    == [p \in DOMAIN r |-> IF p \in toRun THEN signal ELSE r[p]]
  IN IF RenderThrows(items, r) THEN Crash
     ELSE IF r2 = r THEN [exp |-> r, crashed |-> FALSE]
     ELSE Settle(items, signal, r2, FALSE)

\* ------------------------------------------------------------- the views

VARIABLES
  durationStr,     \* the value formatDuration is applied to (SpecFormat)
  duration,        \* what formatDuration returned for it
  activeTab,       \* CheckpointTreeViewer: "application", "creation", "custom"
  app,             \* CheckpointTreeViewer: data, isLoading, expandAll, pending load
  creation,        \* CreationTabContent: data, isLoading, expandAll, pending load
  custom,          \* CustomTabContent: its seven useState cells
  customUrlParam,  \* CheckpointTreeViewer: the URL handed to CustomTabContent
  fetches,         \* the requests of handleFetchFromUrl that have not completed
  expanded,        \* the expanded flag of every TreeNode instance that exists
  crashed,         \* a render threw: React has unmounted the whole page
  lastEvent,       \* the event handled last (history)
  override         \* the nodes toggled an odd number of times since the last
                   \* expand-all change (history, kept in SpecOverride only)

vars == <<durationStr, duration, activeTab, app, creation, custom,
          customUrlParam, fetches, expanded, crashed, lastEvent, override>>

\* The text of the textarea: empty, text that JSON.parse rejects, or the JSON
\* text of a document.
EmptyText     == [k |-> "empty", doc |-> ScalarDoc]
MalformedText == [k |-> "malformed", doc |-> ScalarDoc]
JsonText(d)   == [k |-> "json", doc |-> d]

\* What a request ends with: a success response with a JSON body, a response
\* that is not ok, a rejected fetch, a body that response.json() rejects.
OkResponse(d) == [k |-> "ok", doc |-> d]
NotOkResponse == [k |-> "notok", doc |-> ScalarDoc]
NetworkError  == [k |-> "neterr", doc |-> ScalarDoc]
BadBody       == [k |-> "badjson", doc |-> ScalarDoc]

NoUrl == <<>>

ParseErrorMessage == "Error parsing JSON data. Please check your input and try again."

\* error.message of what handleFetchFromUrl catches.
FetchErrorMessage(resp) ==
  CASE resp.k = "notok"   -> "Failed to fetch data: <statusText>"
    [] resp.k = "neterr"  -> "Failed to fetch"
    [] resp.k = "badjson" -> "Unexpected token in JSON"
    [] OTHER              -> "Cannot create property 'name'"

InitApp      == [data |-> ArrayDoc(<<>>), isLoading |-> TRUE,
                 expandAll |-> FALSE, pending |-> TRUE]
InitCreation == [data |-> ArrayDoc(<<>>), isLoading |-> TRUE,
                 expandAll |-> FALSE, pending |-> TRUE]
NoCreation   == [data |-> ArrayDoc(<<>>), isLoading |-> TRUE,
                 expandAll |-> FALSE, pending |-> FALSE]
InitCustom(initialUrl) ==
  [expandAll |-> FALSE, inputValue |-> EmptyText, urlValue |-> initialUrl,
   parsedData |-> <<>>, showError |-> FALSE, errorMessage |-> "",
   loading |-> FALSE]

\* The message under the Display button, "" when none is drawn.
VisibleError(c) ==
  IF ~c.showError THEN ""
  ELSE IF c.errorMessage = "" THEN ParseErrorMessage ELSE c.errorMessage

\* The items the TreeNodes of the active view are drawn from: none while the
\* view shows its loading or empty indicator.
ViewItems ==
  CASE activeTab = "application" ->
         IF ~app.isLoading /\ HasItems(app.data) THEN app.data.nodes ELSE <<>>
    [] activeTab = "creation" ->
         IF ~creation.isLoading /\ HasItems(creation.data)
         THEN creation.data.nodes ELSE <<>>
    [] OTHER ->
         IF ~custom.loading /\ Len(custom.parsedData) > 0
         THEN custom.parsedData ELSE <<>>

\* The expandAll the active view hands to its TreeNodes.
Signal ==
  CASE activeTab = "application" -> app.expandAll
    [] activeTab = "creation"    -> creation.expandAll
    [] OTHER                     -> custom.expandAll

\* The expand-all button is drawn: TreeViewContent draws it always, and the
\* custom view draws TreeViewContent only with data and not loading.
ExpandAllButton ==
  activeTab = "custom" => (~custom.loading /\ Len(custom.parsedData) > 0)

\* The commit that follows a handler: the TreeNodes are rendered from the new
\* state and their effects run.  `kept` are the instances that stay mounted.
Commit(kept, changed) ==
  LET s == Settle(ViewItems', Signal', kept, changed)
  IN /\ expanded' = s.exp
     /\ crashed' = s.crashed

\* The flag the toggles on record give node p: the expand-all value, negated
\* when the toggles of p since its last change are odd in number.
Effective(p) == IF p \in override THEN ~Signal ELSE Signal

\* The record after a click that ran toggleExpand of node h, of none when h
\* is <<>>.
RecordToggle(h) ==
  override' = IF h = <<>> THEN override
              ELSE IF h \in override THEN override \ {h}
              ELSE override \cup {h}

\* ------------------------------------------------------- CustomTabContent

\* The most requests of handleFetchFromUrl in flight at once.
MaxInFlight == 2

Request(url) == [url |-> url, orphan |-> FALSE]

\* The effect of lines 243-248, run with the state c and the requests f: with
\* an initialUrl it sets urlValue and calls handleFetchFromUrl(initialUrl) up
\* to its first await.  A urlValue that it changed makes handleFetchFromUrl a
\* new function, so the effect runs once more.
urlEffect(c, f, initialUrl) ==
  IF initialUrl = NoUrl THEN [c |-> c, f |-> f]
  ELSE [c |-> [c EXCEPT !.urlValue = initialUrl, !.loading = TRUE,
                        !.showError = FALSE],
        f |-> f \o (IF c.urlValue # initialUrl
                    THEN <<Request(initialUrl), Request(initialUrl)>>
                    ELSE <<Request(initialUrl)>>)]

\* The state a handler of the mounted CustomTabContent leaves (c, the URL
\* parameter of the parent, the requests), followed by the effect when one of
\* its dependencies (initialUrl, urlValue) changed, with at most cap requests
\* in flight.
AfterCustomWithin(c, param, f, cap) ==
  LET due == c.urlValue # custom.urlValue \/ param # customUrlParam
      e   == IF due THEN urlEffect(c, f, param) ELSE [c |-> c, f |-> f]
  IN /\ Len(e.f) <= cap
     /\ custom' = e.c
     /\ fetches' = e.f
     /\ customUrlParam' = param

AfterCustom(c, param, f) == AfterCustomWithin(c, param, f, MaxInFlight)

\* handleFetchFromUrl up to its await (lines 207-215).
handleFetchFromUrl(c) == [c EXCEPT !.loading = TRUE, !.showError = FALSE]

\* handleFetchFromUrl after its await (lines 217-239): the state it leaves.
fetchSettled(c, resp) ==
  IF resp.k = "ok" /\ ~Processed(resp.doc).throws
  THEN [c EXCEPT !.parsedData = Processed(resp.doc).data, !.loading = FALSE]
  ELSE [c EXCEPT !.parsedData = <<>>, !.showError = TRUE,
                 !.errorMessage = FetchErrorMessage(resp), !.loading = FALSE]

\* A handleDisplay whose catch branch leaves parsedData alone.
handleDisplayKeepsTree(c) ==
  IF c.inputValue.k = "json" /\ ~Processed(c.inputValue.doc).throws
  THEN [c EXCEPT !.parsedData = Processed(c.inputValue.doc).data,
                 !.showError = FALSE, !.loading = FALSE]
  ELSE [c EXCEPT !.showError = TRUE, !.errorMessage = ParseErrorMessage,
                 !.loading = FALSE]

handleDisplay(c) ==
  IF c.inputValue.k = "json" /\ ~Processed(c.inputValue.doc).throws
  THEN [c EXCEPT !.parsedData = Processed(c.inputValue.doc).data,
                 !.showError = FALSE, !.loading = FALSE]
  ELSE [c EXCEPT !.parsedData = <<>>, !.showError = TRUE,
                 !.errorMessage = ParseErrorMessage, !.loading = FALSE]

handleReset(c) ==
  [c EXCEPT !.inputValue = EmptyText, !.urlValue = NoUrl,
            !.parsedData = <<>>, !.showError = FALSE]

\* ------------------------------------------------------- preset documents

\* The .then/.catch chain of lines 447-461 and 544-558.
presetLoaded(v, resp) ==
  IF resp.k = "ok"
  THEN [v EXCEPT !.data = resp.doc, !.isLoading = FALSE, !.pending = FALSE]
  ELSE [v EXCEPT !.isLoading = FALSE, !.pending = FALSE]

\* ---------------------------------------------------------------- clicks

\* The TreeNode instances whose row (the div with onClick) a click on the row
\* of instance p passes through: the row of p alone, since the child list is
\* drawn beside the row of its parent, not inside it.
BubblePath(p) == <<p>>

\* The instance whose toggleExpand a click on the row of p runs, <<>> when
\* none: the first on the path that has children; stopPropagation ends there.
RECURSIVE Handler(_, _)
Handler(items, path) ==
  IF path = <<>> THEN <<>>
  ELSE IF hasChildren(ItemAt(items, Head(path))) THEN Head(path)
  ELSE Handler(items, Tail(path))

\* A toggle that writes one flag shared by every instance.
toggleShared(exp, p) == [q \in DOMAIN exp |-> ~exp[p]]

\* setExpanded(!expanded) of instance p.
toggleExpand(exp, p) == [exp EXCEPT ![p] = ~exp[p]]

\* The event handled last: its kind, the TreeNode clicked, the kind of text,
\* response or tab it came with, and the document that text or response held.
Event(op, p, k, doc) == [k |-> k, p |-> p, doc |-> doc, op |-> op]
NoEvent == Event("none", <<>>, "", ScalarDoc)

\* --------------------------------------------------------------- actions

Init ==
  /\ durationStr = Undefined
  /\ duration = NotShown
  /\ activeTab = "application"
  /\ app = InitApp
  /\ creation = NoCreation
  /\ custom = InitCustom(NoUrl)
  /\ customUrlParam = NoUrl
  /\ fetches = <<>>
  /\ expanded = <<>>
  /\ crashed = FALSE
  /\ lastEvent = NoEvent
  /\ override = {}

\* The preset request of CheckpointTreeViewer completes (lines 544-558).
AppLoadDone(resp) ==
  /\ ~crashed
  /\ app.pending
  /\ app' = presetLoaded(app, resp)
  /\ lastEvent' = Event("appLoad", <<>>, resp.k, resp.doc)
  /\ UNCHANGED <<durationStr, duration, activeTab, creation, custom,
                 customUrlParam, fetches>>
  /\ Commit(expanded, FALSE)
  /\ UNCHANGED override

\* The preset request of the mounted CreationTabContent completes (447-461).
CreationLoadDone(resp) ==
  /\ ~crashed
  /\ activeTab = "creation"
  /\ creation.pending
  /\ creation' = presetLoaded(creation, resp)
  /\ lastEvent' = Event("creationLoad", <<>>, resp.k, resp.doc)
  /\ UNCHANGED <<durationStr, duration, activeTab, app, custom,
                 customUrlParam, fetches>>
  /\ Commit(expanded, FALSE)
  /\ UNCHANGED override

\* handleTabChange(id): the content of the old tab is unmounted, that of the
\* new one mounted (CreationTabContent starts its request, CustomTabContent
\* runs its effect with initialUrl = customUrlParam).
TabChange(id) ==
  /\ ~crashed
  /\ id # activeTab
  /\ activeTab' = id
  /\ creation' = IF id = "creation" THEN InitCreation ELSE NoCreation
  /\ LET left == [i \in 1..Len(fetches) |-> [fetches[i] EXCEPT !.orphan = TRUE]]
         e    == IF id = "custom"
                 THEN urlEffect(InitCustom(customUrlParam), left, customUrlParam)
                 ELSE [c |-> InitCustom(NoUrl), f |-> left]
     IN /\ Len(e.f) <= MaxInFlight
        /\ custom' = e.c
        /\ fetches' = e.f
  /\ lastEvent' = Event("tab", <<>>, id, ScalarDoc)
  /\ UNCHANGED <<durationStr, duration, app, customUrlParam>>
  /\ Commit(<<>>, FALSE)
  /\ UNCHANGED override

\* The textarea's onChange, or Load Example.
SetInput(text) ==
  /\ ~crashed
  /\ activeTab = "custom"
  /\ text # custom.inputValue
  /\ AfterCustom([custom EXCEPT !.inputValue = text], customUrlParam, fetches)
  /\ lastEvent' = Event("input", <<>>, text.k, ScalarDoc)
  /\ UNCHANGED <<durationStr, duration, activeTab, app, creation>>
  /\ Commit(expanded, FALSE)
  /\ UNCHANGED override

\* The URL field's onChange (lines 340-342).
SetUrl(url) ==
  /\ ~crashed
  /\ activeTab = "custom"
  /\ url # custom.urlValue
  /\ AfterCustom([custom EXCEPT !.urlValue = url], customUrlParam, fetches)
  /\ lastEvent' = Event("url", <<>>, "", ScalarDoc)
  /\ UNCHANGED <<durationStr, duration, activeTab, app, creation>>
  /\ Commit(expanded, FALSE)
  /\ UNCHANGED override

\* A click on Fetch: handleFetchFromUrl() with url = urlValue.
Fetch ==
  /\ ~crashed
  /\ activeTab = "custom"
  /\ custom.urlValue # NoUrl
  /\ ~custom.loading
  /\ AfterCustom(handleFetchFromUrl(custom), customUrlParam,
                 Append(fetches, Request(custom.urlValue)))
  /\ lastEvent' = Event("fetch", <<>>, "", ScalarDoc)
  /\ UNCHANGED <<durationStr, duration, activeTab, app, creation>>
  /\ Commit(expanded, FALSE)
  /\ UNCHANGED override

Without(f, i) == SubSeq(f, 1, i - 1) \o SubSeq(f, i + 1, Len(f))

\* Request i of handleFetchFromUrl completes with resp.  The setters of an
\* unmounted CustomTabContent do nothing; setCustomUrlParam is the parent's.
FetchDoneWithin(i, resp, cap) ==
  /\ ~crashed
  /\ i \in 1..Len(fetches)
  /\ LET r     == fetches[i]
         ok    == resp.k = "ok" /\ ~Processed(resp.doc).throws
         param == IF ok THEN r.url ELSE customUrlParam
     IN /\ IF activeTab = "custom"
           THEN AfterCustomWithin(IF r.orphan THEN custom
                                  ELSE fetchSettled(custom, resp),
                                  param, Without(fetches, i), cap)
           ELSE /\ custom' = custom
                /\ fetches' = Without(fetches, i)
                /\ customUrlParam' = param
        /\ lastEvent' = Event(IF r.orphan THEN "orphanDone" ELSE "fetchDone",
                              <<>>, resp.k, resp.doc)
  /\ UNCHANGED <<durationStr, duration, activeTab, app, creation>>
  /\ Commit(expanded, FALSE)
  /\ UNCHANGED override

FetchDone(i, resp) == FetchDoneWithin(i, resp, MaxInFlight)

\* A click on Display Tree.
Display ==
  /\ ~crashed
  /\ activeTab = "custom"
  /\ custom.inputValue.k # "empty"
  /\ ~custom.loading
  /\ AfterCustom(handleDisplay(custom), customUrlParam, fetches)
  /\ lastEvent' = Event("display", <<>>, custom.inputValue.k,
                        custom.inputValue.doc)
  /\ UNCHANGED <<durationStr, duration, activeTab, app, creation>>
  /\ Commit(expanded, FALSE)
  /\ UNCHANGED override

\* A click on Clear.
Reset ==
  /\ ~crashed
  /\ activeTab = "custom"
  /\ custom.inputValue.k # "empty"
  /\ AfterCustom(handleReset(custom), NoUrl, fetches)
  /\ lastEvent' = Event("reset", <<>>, "", ScalarDoc)
  /\ UNCHANGED <<durationStr, duration, activeTab, app, creation>>
  /\ Commit(expanded, FALSE)
  /\ UNCHANGED override

\* The onClick of the row of the TreeNode instance p (lines 101-105).
onClick(p) ==
  /\ ~crashed
  /\ p \in DOMAIN expanded
  /\ lastEvent' = Event("click", p, "", ScalarDoc)
  /\ UNCHANGED <<durationStr, duration, activeTab, app, creation, custom,
                 customUrlParam, fetches>>
  /\ LET h == Handler(ViewItems, BubblePath(p))
     IN Commit(IF h = <<>> THEN expanded ELSE toggleExpand(expanded, h), FALSE)

\* A click on the row of the TreeNode instance p.
Click(p) ==
  /\ onClick(p)
  /\ UNCHANGED override

\* setExpandAll(!expandAll) of the view that owns the signal.
flipExpandAll(v) == [v EXCEPT !.expandAll = ~v.expandAll]

\* A click on the Expand All / Collapse All button of the active view.
SetExpandAll ==
  /\ ~crashed
  /\ ExpandAllButton
  /\ app' = IF activeTab = "application" THEN flipExpandAll(app) ELSE app
  /\ creation' = IF activeTab = "creation" THEN flipExpandAll(creation)
                 ELSE creation
  /\ custom' = IF activeTab = "custom" THEN flipExpandAll(custom) ELSE custom
  /\ lastEvent' = Event("expandAll", <<>>, "", ScalarDoc)
  /\ UNCHANGED <<durationStr, duration, activeTab, customUrlParam, fetches>>
  /\ Commit(expanded, TRUE)
  /\ override' = {}

\* ---------------------------------------------------------------- inputs

TitleA == Str(<<"a">>)
TitleB == Str(<<"b">>)
Leaf(title, d) == Node(title, Undefined, d, NoChildren)

\* {"duration":12.5,"children":[{"duration":99.996}]}
NumericDoc ==
  ObjectDoc(Node(Undefined, Undefined, Number(12500),
                 Children(<<Leaf(Undefined, Number(99996))>>)))

\* {"title":"a","duration":true}
BooleanDoc == ObjectDoc(Leaf(TitleA, Bool(TRUE)))

\* {"title":"a","duration":"1s","children":"abc"}
TextChildrenDoc ==
  ObjectDoc(Node(TitleA, Undefined, Str(<<"1", "s">>), TextChildren(3)))

\* [{"title":"a","duration":"250ms","children":[{"title":"b"}]},
\*  {"title":"b","duration":12.5}]
ListDoc ==
  ArrayDoc(<<Node(TitleA, Undefined, Str(<<"2", "5", "0", "m", "s">>),
                  Children(<<Leaf(TitleB, Undefined)>>)),
             Leaf(TitleB, Number(12500))>>)

\* [{"title":"a","duration":"1s","children":[{"title":"b","duration":"5ms"}]}]
PlainDoc ==
  ArrayDoc(<<Node(TitleA, Undefined, Str(<<"1", "s">>),
                  Children(<<Leaf(TitleB, Str(<<"5", "m", "s">>))>>))>>)

\* The documents that are pasted, those the custom URL answers with, and
\* those the two preset URLs answer with.
PasteDocs  == {NumericDoc, BooleanDoc, PlainDoc, ScalarDoc}
FetchDocs  == {NumericDoc, TextChildrenDoc, ScalarDoc}
PresetDocs == {ListDoc}

Texts == {EmptyText, MalformedText} \cup {JsonText(d) : d \in PasteDocs}

Failures        == {NotOkResponse, NetworkError, BadBody}
Responses       == {OkResponse(d) : d \in FetchDocs} \cup Failures
PresetResponses == {OkResponse(d) : d \in PresetDocs} \cup {NotOkResponse}

Urls == {<<"u">>}

Next ==
  \/ \E resp \in PresetResponses : AppLoadDone(resp)
  \/ \E resp \in PresetResponses : CreationLoadDone(resp)
  \/ \E id \in {"application", "creation", "custom"} : TabChange(id)
  \/ \E text \in Texts : SetInput(text)
  \/ \E url \in Urls \cup {NoUrl} : SetUrl(url)
  \/ Fetch
  \/ \E i \in 1..MaxInFlight, resp \in Responses : FetchDone(i, resp)
  \/ Display
  \/ Reset
  \/ \E p \in DOMAIN expanded : Click(p)
  \/ SetExpandAll

Spec == Init /\ [][Next]_vars

\* ------------------------------------------------- formatDuration alone

\* How far around each threshold the magnitudes are taken, in hundredths of a
\* millisecond.
Delta == 2

\* Magnitudes in hundredths of a millisecond: around zero and each threshold,
\* 5 ms, 33.17 s and a negative one.
Quantities ==
  (0..Delta) \cup {500, 3317000, 0 - 100 * ErrorMs}
    \cup UNION { (100 * c - Delta)..(100 * c + Delta)
                 : c \in {ModerateMs, WarningMs, ErrorMs} }

RECURSIVE StripZeros(_)
StripZeros(s) ==
  IF s # <<>> /\ s[Len(s)] = "0" THEN StripZeros(SubSeq(s, 1, Len(s) - 1)) ELSE s

RECURSIVE StripLeadingZeros(_)
StripLeadingZeros(s) ==
  IF Len(s) > 1 /\ s[1] = "0" THEN StripLeadingZeros(Tail(s)) ELSE s

RECURSIVE ZeroText(_)
ZeroText(n) == IF n <= 0 THEN <<>> ELSE <<"0">> \o ZeroText(n - 1)

\* The decimal numeral of the digits ds with the last e of them after the
\* point (of ds followed by -e zeros when e is negative).
DecText(ds, e) ==
  LET all  == ZeroText(e + 1 - Len(ds)) \o ds \o ZeroText(0 - e)
      n    == IF e > 0 THEN e ELSE 0
      frac == StripZeros(SubSeq(all, Len(all) - n + 1, Len(all)))
  IN StripLeadingZeros(SubSeq(all, 1, Len(all) - n))
       \o (IF frac = <<>> THEN <<>> ELSE <<".">> \o frac)

\* A quantity: the digits ds with the last e of them after the point, in
\* milliseconds.
Hundredths(q) ==
  [neg |-> q < 0, e |-> 2, ds |-> NatText(IF q < 0 THEN 0 - q ELSE q)]

\* 99.999999999999995 ms and 99.99999999999999 ms
FineQuantities ==
  {[neg |-> FALSE, e |-> 15,
    ds |-> <<"9", "9", "9", "9", "9", "9", "9", "9", "9", "9", "9", "9",
             "9", "9", "9", "9", "5">>],
   [neg |-> FALSE, e |-> 14,
    ds |-> <<"9", "9", "9", "9", "9", "9", "9", "9", "9", "9", "9", "9",
             "9", "9", "9", "9">>]}

Units == {"s", "ms", "μs", ""}

\* The quantity w written in the unit u.
Written(w, u) ==
  (IF w.neg THEN <<"-">> ELSE <<>>)
    \o (CASE u = "s"  -> DecText(w.ds, w.e + 3) \o <<"s">>
          [] u = "ms" -> DecText(w.ds, w.e) \o <<"m", "s">>
          [] u = "μs" -> DecText(w.ds, w.e - 3) \o <<"μ", "s">>
          [] OTHER    -> DecText(w.ds, w.e))

\* The magnitude of q hundredths of a millisecond written in the unit u.
Render(q, u) == Written(Hundredths(q), u)

\* The severity-marker syntax around text.
Wrap(tag, s) == SpanOpen(tag) \o s \o SpanClose

Tags == {ErrorWord, WarnWord, OrangeWord}

\* The text s followed by a word, without any marker syntax: "5ms error".
Noted(tag, s) == s \o <<" ">> \o tag

\* Numbers of a JSON document, in thousandths: within 4 + Delta thousandths of
\* each threshold, none of them halfway between two hundredths, 5 and -5.
Thousandths ==
  {5000, 0 - 5000}
    \cup UNION { {t \in (1000 * c - 4 - Delta)..(1000 * c + 4 + Delta) : t % 10 # 5}
                 : c \in {ModerateMs, WarningMs, ErrorMs} }

\* Unit spellings the code does not name: "us" and an upper-case "S".
AltUnits == {<<"u", "s">>, <<"S">>}

\* The number q / 100 followed by the spelling u.
Spelled(q, u) ==
  (IF q < 0 THEN <<"-">> ELSE <<>>)
    \o DecText(NatText(IF q < 0 THEN 0 - q ELSE q), 2) \o u

FormatInputs ==
  {Str(Render(q, u)) : q \in Quantities, u \in Units}
    \cup {Str(Wrap(tag, Render(q, u))) : tag \in Tags, q \in Quantities, u \in Units}
    \cup {Str(Written(w, u)) : w \in FineQuantities, u \in Units}
    \cup {Str(Spelled(q, u)) : q \in Quantities, u \in AltUnits}
    \cup {Number(t) : t \in Thousandths}
    \cup {Str(Noted(tag, Render(q, "ms"))) : tag \in Tags, q \in Quantities}
    \cup {Undefined, Null, Str(<<>>), Number(0), Number(12500), Bool(TRUE),
          Bool(FALSE)}

InitFormat ==
  /\ durationStr \in FormatInputs
  /\ duration = NotShown
  /\ activeTab = "application"
  /\ app = InitApp
  /\ creation = NoCreation
  /\ custom = InitCustom(NoUrl)
  /\ customUrlParam = NoUrl
  /\ fetches = <<>>
  /\ expanded = <<>>
  /\ crashed = FALSE
  /\ lastEvent = NoEvent
  /\ override = {}

\* const duration = formatDuration(item.duration) (line 98)
Format ==
  /\ ~duration.done
  /\ duration' = formatDuration(durationStr)
  /\ UNCHANGED <<durationStr, activeTab, app, creation, custom,
                 customUrlParam, fetches, expanded, crashed, lastEvent,
                 override>>

\* processNode on a node whose duration is a number (lines 189-191), before
\* the node is drawn; lastEvent keeps the node it was given.
ProcessDuration ==
  /\ ~duration.done
  /\ durationStr.k = "number"
  /\ durationStr' = processNode(Leaf(Undefined, durationStr)).duration
  /\ lastEvent' = Event("processNode", <<>>, durationStr.k,
                        ObjectDoc(Leaf(Undefined, durationStr)))
  /\ UNCHANGED <<duration, activeTab, app, creation, custom, customUrlParam,
                 fetches, expanded, crashed, override>>

NextFormat == Format \/ ProcessDuration

SpecFormat == InitFormat /\ [][NextFormat]_vars

\* The class the thresholds give a magnitude of q hundredths of a millisecond.
TierOf(q) ==
  IF q >= 100 * ErrorMs THEN ClassError
  ELSE IF q >= 100 * WarningMs THEN ClassWarning
  ELSE IF q >= 100 * ModerateMs THEN ClassModerate
  ELSE ClassNone

\* C1: a duration string with no severity marker is classified by its
\* magnitude m in milliseconds alone: error iff m >= 1000, warning iff
\* 250 <= m < 1000, moderate iff 100 <= m < 250, none otherwise, with 1000,
\* 250 and 100 in the higher tier; m is the number extractTimeInMs computes,
\* and for the quantities written with hundredths of a millisecond that is
\* the tier of the quantity written, in every unit.
C1_Thresholds ==
  (duration.done /\ durationStr.k = "string" /\ durationStr.s # <<>>
     /\ MarkerOf(durationStr.s) = "none")
  => LET m == extractTimeInMs(durationStr.s)
         c == duration.className
     IN /\ ~duration.throws
        /\ duration.text = durationStr.s
        /\ c = ClassError <=> AtLeast(m, 1000)
        /\ c = ClassWarning <=> (AtLeast(m, 250) /\ ~AtLeast(m, 1000))
        /\ c = ClassModerate <=> (AtLeast(m, 100) /\ ~AtLeast(m, 250))
        /\ c = ClassNone <=> ~AtLeast(m, 100)
        /\ \A q \in Quantities, u \in Units :
             durationStr.s = Render(q, u) => c = TierOf(q)

\* The boundary text "1000ms" has been classified, as error.
C1_Witness ==
  /\ duration.done
  /\ durationStr = Str(<<"1", "0", "0", "0", "m", "s">>)
  /\ duration.className = ClassError

\* C2: the same quantity written in seconds, milliseconds and microseconds
\* has the same magnitude in extractTimeInMs, and the class formatDuration
\* gave the one that was formatted is the class of the other two.
C2_UnitsAgree ==
  duration.done
  => \A w \in {Hundredths(q) : q \in Quantities} \cup FineQuantities,
        u \in {"s", "ms", "μs"} :
       durationStr = Str(Written(w, u))
       => \A v \in {"s", "ms", "μs"} :
            /\ extractTimeInMs(Written(w, v)) = extractTimeInMs(durationStr.s)
            /\ formatDuration(Str(Written(w, v))).className = duration.className

TagClass(tag) ==
  CASE tag = ErrorWord  -> ClassError
    [] tag = WarnWord   -> ClassWarning
    [] tag = OrangeWord -> ClassModerate

\* C3: a duration string wrapped in the marker syntax tagged error, warn or
\* orange gets the class of its tag whatever its magnitude is, and the text
\* returned is the inner text.
C3_MarkerWins ==
  duration.done
  => \A tag \in Tags, q \in Quantities, u \in Units :
       durationStr = Str(Wrap(tag, Render(q, u)))
       => /\ ~duration.throws
          /\ duration.className = TagClass(tag)
          /\ duration.text = Render(q, u)

\* '<span class="warn">1000ms</span>' has been classified: warning, not the
\* error of its magnitude.
C3_Witness ==
  /\ duration.done
  /\ durationStr = Str(Wrap(WarnWord, <<"1", "0", "0", "0", "m", "s">>))
  /\ duration.className = ClassWarning
  /\ duration.text = <<"1", "0", "0", "0", "m", "s">>

\* ------------------------------------------------- one tree, its toggles

\* Depth of the tree of SpecTree: its deepest node with children is at depth
\* TreeDepth - 1.
TreeDepth == 4

Twig == Node(TitleB, Undefined, Str(<<"5", "m", "s">>),
             Children(<<Leaf(TitleB, Undefined)>>))
Bare == Node(TitleB, Undefined, Str(<<"5", "m", "s">>), Children(<<>>))

RECURSIVE DeepNode(_)
DeepNode(d) ==
  IF d = 0 THEN Leaf(TitleB, Str(<<"5", "m", "s">>))
  ELSE Node(TitleA, Undefined, Str(<<"1", "s">>),
            Children(<<DeepNode(d - 1), Bare, Twig>>))

TreeDoc == ArrayDoc(<<DeepNode(TreeDepth), Twig>>)

TreeResponses == {OkResponse(TreeDoc), NotOkResponse}

NextTree ==
  \/ \E resp \in TreeResponses : AppLoadDone(resp)
  \/ \E p \in DOMAIN expanded : Click(p)
  \/ SetExpandAll

SpecTree == Init /\ [][NextTree]_vars

\* Every path of the tree under items.
RECURSIVE AllPaths(_, _)
AllPaths(items, prefix) ==
  UNION { {Append(prefix, i)} \cup
          (IF items[i].children.k = "array"
           THEN AllPaths(items[i].children.items, Append(prefix, i))
           ELSE {})
        : i \in 1..Len(items) }

IsPrefix(p, q) == Len(p) <= Len(q) /\ SubSeq(q, 1, Len(p)) = p

\* The item has children to show: a children sequence that is not empty.
NonEmptyChildren(item) ==
  item.children.k = "array" /\ Len(item.children.items) > 0

\* C4: after the expand-all control is switched to expand, every node of the
\* tree is drawn and every node with children is expanded, at every depth;
\* after it is switched to collapse, every drawn node is collapsed, whatever
\* the individual flags were before.
C4_Broadcast ==
  (lastEvent.op = "expandAll" /\ ~crashed)
  => IF Signal
     THEN \A p \in AllPaths(ViewItems, <<>>) :
            /\ p \in DOMAIN expanded
            /\ NonEmptyChildren(ItemAt(ViewItems, p)) => expanded[p]
     ELSE \A p \in DOMAIN expanded : ~expanded[p] /\ Len(p) = 1

\* Expand All has just expanded a node with children at depth 3.
C4_Witness ==
  /\ lastEvent.op = "expandAll"
  /\ Signal
  /\ \E p \in DOMAIN expanded :
       Len(p) >= 4 /\ NonEmptyChildren(ItemAt(ViewItems, p)) /\ expanded[p]

\* C5: a click on a node n with children flips the expanded flag of n and
\* nothing else: the expand-all signal and the states of the views are
\* unchanged, and outside the subtree of n the same instances exist with the
\* same flags (the ancestors of n among them).
C5_ToggleIsLocal ==
  [][\A p \in DOMAIN expanded :
       (Click(p) /\ NonEmptyChildren(ItemAt(ViewItems, p)))
       => /\ expanded'[p] = ~expanded[p]
          /\ Signal' = Signal
          /\ UNCHANGED <<app, creation, custom, activeTab>>
          /\ \A q \in (DOMAIN expanded \cup DOMAIN expanded') :
               ~IsPrefix(p, q)
               => /\ q \in DOMAIN expanded
                  /\ q \in DOMAIN expanded'
                  /\ expanded'[q] = expanded[q]]_vars

\* A node with children two levels below the top has just been clicked, and
\* its flag now differs from the expand-all signal.
C5_Witness ==
  /\ lastEvent.op = "click"
  /\ Len(lastEvent.p) >= 3
  /\ lastEvent.p \in DOMAIN expanded
  /\ NonEmptyChildren(ItemAt(ViewItems, lastEvent.p))
  /\ expanded[lastEvent.p] # Signal

\* The children of the item are absent or an empty sequence.
NoChildrenToShow(item) ==
  \/ item.children.k = "undefined"
  \/ item.children.k = "array" /\ Len(item.children.items) = 0

\* C6: a node whose children are absent or empty draws no toggle indicator
\* and no child list, whatever its expanded flag and the expand-all signal
\* are, and a click on it changes no state; a node with children that are not
\* empty draws the indicator.
C6_LeafContainment ==
  /\ [](\A p \in DOMAIN expanded :
          LET item == ItemAt(ViewItems, p)
              view == NodeView(item, expanded[p])
          IN /\ NoChildrenToShow(item)
                => /\ ~view.indicator
                   /\ ~view.childList
                   /\ \A q \in DOMAIN expanded : ~(IsPrefix(p, q) /\ q # p)
             /\ NonEmptyChildren(item) => view.indicator)
  /\ [][\A p \in DOMAIN expanded :
          (Click(p) /\ NoChildrenToShow(ItemAt(ViewItems, p)))
          => UNCHANGED <<activeTab, app, creation, custom, customUrlParam,
                         fetches, expanded, crashed>>]_vars

\* A node with an empty children sequence whose expanded flag is set has just
\* been clicked.
C6_Witness ==
  /\ lastEvent.op = "click"
  /\ lastEvent.p \in DOMAIN expanded
  /\ ItemAt(ViewItems, lastEvent.p).children.k = "array"
  /\ NoChildrenToShow(ItemAt(ViewItems, lastEvent.p))
  /\ expanded[lastEvent.p]
  /\ Signal

\* ------------------------------------------------ the sources of documents

\* The text is not JSON, or the JSON value is neither an object nor an array
\* of objects.
BadInput(text) ==
  text.k = "malformed" \/ (text.k = "json" /\ text.doc.k = "scalar")

\* C7: after Display on text that is not JSON, or whose root is neither an
\* object nor an array of objects, the custom view shows an error message, no
\* tree (the tree shown before is gone) and no loading indicator, and the
\* page has not failed.
C7_MalformedPaste ==
  (lastEvent.op = "display" /\ BadInput(custom.inputValue))
  => /\ activeTab = "custom"
     /\ custom.showError
     /\ VisibleError(custom) # ""
     /\ custom.parsedData = <<>>
     /\ ViewItems = <<>>
     /\ DOMAIN expanded = {}
     /\ ~custom.loading
     /\ ~crashed

\* Display has just handled text that JSON.parse rejects.
C7_Witness ==
  /\ lastEvent.op = "display"
  /\ custom.inputValue = MalformedText
  /\ custom.showError
  /\ VisibleError(custom) = ParseErrorMessage

\* C8: no document makes rendering fail, whichever of the three sources
\* delivers it.
C8_RenderNeverThrows == ~crashed

\* The last event delivered a document to a view, and the items that view
\* holds for it.
Delivered ==
  \/ lastEvent.op = "display" /\ lastEvent.k = "json" /\ lastEvent.doc.k # "scalar"
  \/ lastEvent.op = "fetchDone" /\ lastEvent.k = "ok" /\ lastEvent.doc.k # "scalar"
  \/ lastEvent.op \in {"appLoad", "creationLoad"} /\ lastEvent.k = "ok"
       /\ lastEvent.doc.k = "array"

Held ==
  CASE lastEvent.op = "appLoad"      -> app.data.nodes
    [] lastEvent.op = "creationLoad" -> creation.data.nodes
    [] OTHER                         -> custom.parsedData

\* C9: whichever source delivered the document, every node of it whose
\* duration is a number is drawn with that number to two decimals and "ms".
C9_SameNormalization ==
  Delivered
  => \A p \in AllPaths(lastEvent.doc.nodes, <<>>) :
       LET raw == ItemAt(lastEvent.doc.nodes, p).duration
       IN raw.k = "number"
          => /\ p \in AllPaths(Held, <<>>)
             /\ ~formatThrows(ItemAt(Held, p).duration)
             /\ formatDuration(ItemAt(Held, p).duration).text
                  = toFixed2(raw.n) \o <<"m", "s">>

\* C10: after processNode every node has a title that is not empty, the
\* placeholder when the input had none, and that title is the label drawn.
C10_TitleDefaulted ==
  (Delivered /\ lastEvent.op \in {"display", "fetchDone"})
  => \A p \in AllPaths(lastEvent.doc.nodes, <<>>) :
       LET raw  == ItemAt(lastEvent.doc.nodes, p)
           item == ItemAt(custom.parsedData, p)
       IN /\ item.title.k = "string"
          /\ item.title.s # <<>>
          /\ Falsy(raw.title) => NodeView(item, FALSE).label = Str(UnnamedNode)

\* C11: after a successful load in the custom view (Display of pasted text,
\* or a completed URL fetch) has replaced the tree, every TreeNode drawn has
\* its expanded flag equal to the expand-all value, whatever was toggled on
\* the tree before.
C11_LoadResetsNodes ==
  (Delivered /\ lastEvent.op \in {"display", "fetchDone"}
     /\ activeTab = "custom" /\ ~crashed)
  => \A p \in DOMAIN expanded : expanded[p] = custom.expandAll

\* ---------------------------------------------------- the address fragment

Letters ==
  {"a", "b", "c", "d", "e", "f", "g", "h", "i", "j", "k", "l", "m", "n", "o",
   "p", "q", "r", "s", "t", "u", "v", "w", "x", "y", "z",
   "A", "B", "C", "D", "E", "F"}

\* The punctuation of the URLs considered, and the two hexadecimal digits of
\* each character in a percent escape.
Punctuation ==
  {" ", "!", "#", "%", "&", "'", "(", ")", "+", "/", ":", "=", "?", "~"}

HexOf(c) ==
  CASE c = " " -> <<"2", "0">> [] c = "!" -> <<"2", "1">>
    [] c = "#" -> <<"2", "3">> [] c = "%" -> <<"2", "5">>
    [] c = "&" -> <<"2", "6">> [] c = "'" -> <<"2", "7">>
    [] c = "(" -> <<"2", "8">> [] c = ")" -> <<"2", "9">>
    [] c = "+" -> <<"2", "B">> [] c = "/" -> <<"2", "F">>
    [] c = ":" -> <<"3", "A">> [] c = "=" -> <<"3", "D">>
    [] c = "?" -> <<"3", "F">> [] c = "~" -> <<"7", "E">>

\* s has a percent escape of one of these characters at position i.
EscapeAt(s, i) ==
  /\ i + 2 <= Len(s)
  /\ s[i] = "%"
  /\ \E c \in Punctuation : HexOf(c) = <<s[i + 1], s[i + 2]>>

Unescaped(s, i) == CHOOSE c \in Punctuation : HexOf(c) = <<s[i + 1], s[i + 2]>>

\* encodeURIComponent: letters, digits and - _ . ! ~ * ' ( ) stay, every other
\* character becomes a percent escape.
RECURSIVE encodeURIComponent(_)
encodeURIComponent(s) ==
  IF s = <<>> THEN <<>>
  ELSE (IF Head(s) \in Letters \cup Digit
                         \cup {"-", "_", ".", "!", "~", "*", "'", "(", ")"}
        THEN <<Head(s)>> ELSE <<"%">> \o HexOf(Head(s)))
         \o encodeURIComponent(Tail(s))

\* decodeURIComponent: every percent escape becomes its character; a "%" that
\* starts no escape raises a URIError.
RECURSIVE decodeThrows(_, _)
decodeThrows(s, i) ==
  IF i > Len(s) THEN FALSE
  ELSE IF s[i] = "%" THEN ~EscapeAt(s, i) \/ decodeThrows(s, i + 3)
  ELSE decodeThrows(s, i + 1)

RECURSIVE decodeURIComponent(_, _)
decodeURIComponent(s, i) ==
  IF i > Len(s) THEN <<>>
  ELSE IF EscapeAt(s, i) THEN <<Unescaped(s, i)>> \o decodeURIComponent(s, i + 3)
  ELSE <<s[i]>> \o decodeURIComponent(s, i + 1)

\* The application/x-www-form-urlencoded serializer of URLSearchParams: letters,
\* digits and * - . _ stay, a space becomes "+", the rest percent escapes.
RECURSIVE FormEncode(_)
FormEncode(s) ==
  IF s = <<>> THEN <<>>
  ELSE (IF Head(s) \in Letters \cup Digit \cup {"*", "-", ".", "_"}
        THEN <<Head(s)>>
        ELSE IF Head(s) = " " THEN <<"+">>
        ELSE <<"%">> \o HexOf(Head(s)))
         \o FormEncode(Tail(s))

\* Its parser on a name or a value: "+" is a space, a percent escape its
\* character, any other "%" stays.
RECURSIVE FormDecode(_, _)
FormDecode(s, i) ==
  IF i > Len(s) THEN <<>>
  ELSE IF s[i] = "+" THEN <<" ">> \o FormDecode(s, i + 1)
  ELSE IF EscapeAt(s, i) THEN <<Unescaped(s, i)>> \o FormDecode(s, i + 3)
  ELSE <<s[i]>> \o FormDecode(s, i + 1)

\* The pieces of s between the separators sep.
RECURSIVE Split(_, _)
Split(s, sep) ==
  IF ~Includes(s, <<sep>>) THEN <<s>>
  ELSE <<SubSeq(s, 1, IndexOf(s, <<sep>>) - 1)>>
         \o Split(SubSeq(s, IndexOf(s, <<sep>>) + 1, Len(s)), sep)

\* The name and the value of one "name=value" piece.
PairName(piece) ==
  FormDecode(IF Includes(piece, <<"=">>)
             THEN SubSeq(piece, 1, IndexOf(piece, <<"=">>) - 1) ELSE piece, 1)
PairValue(piece) ==
  IF Includes(piece, <<"=">>)
  THEN FormDecode(SubSeq(piece, IndexOf(piece, <<"=">>) + 1, Len(piece)), 1)
  ELSE <<>>

\* new URLSearchParams(text).get(name): the value of the first pair with that
\* name, <<>> for null.
ParamGet(text, name) ==
  LET pieces == SelectSeq(Split(text, "&"), LAMBDA x : x # <<>>)
      hits   == SelectSeq(pieces, LAMBDA x : PairName(x) = name)
  IN IF hits = <<>> THEN <<>> ELSE PairValue(hits[1])

TabKey    == <<"t", "a", "b">>
UrlKey    == <<"u", "r", "l">>
CustomTab == <<"c", "u", "s", "t", "o", "m">>

\* The fragment lines 508-511 write for the URL u: params.toString().
FragmentOf(u) ==
  TabKey \o <<"=">> \o FormEncode(CustomTab) \o <<"&">>
    \o UrlKey \o <<"=">> \o FormEncode(encodeURIComponent(u))

\* The fragment of the address, without its "#": the effect of lines 505-516
\* runs after every commit that changed activeTab or customUrlParam, and
\* writes the fragment of the URL on the custom tab with a URL, nothing on
\* another tab; on the custom tab without a URL it leaves what is there, which
\* is nothing, the tab having been entered from another one or the URL having
\* been cleared by handleReset (lines 280-284).
locationHash ==
  IF activeTab = "custom" /\ customUrlParam # NoUrl
  THEN FragmentOf(customUrlParam) ELSE <<>>

\* The tab and the URL parameter once the page has been loaded with the
\* fragment h: the effect of lines 484-502 on the initial state.
Loaded(h) ==
  LET tab == ParamGet(h, TabKey)
      url == ParamGet(h, UrlKey)
  IN IF h # <<>> /\ tab = CustomTab /\ url # <<>> /\ ~decodeThrows(url, 1)
     THEN [activeTab |-> "custom", customUrlParam |-> decodeURIComponent(url, 1)]
     ELSE [activeTab |-> "application", customUrlParam |-> NoUrl]

\* C12: in every state, loading the page again with the fragment the program
\* has written gives the same active view and, on the custom tab with a URL,
\* the same URL character for character.
C12_FragmentRoundTrip ==
  ~crashed
  => /\ Loaded(locationHash).activeTab = activeTab
     /\ (activeTab = "custom" /\ customUrlParam # NoUrl)
          => Loaded(locationHash).customUrlParam = customUrlParam

\* C13: a duration string whose unit is spelled "us" or "S", neither of them a
\* unit the code names, is classified none and its text is returned verbatim,
\* whatever the number in front of the unit is.
C13_UnknownUnitIsNone ==
  duration.done
  => \A q \in Quantities, u \in AltUnits :
       durationStr = Str(Spelled(q, u))
       => /\ ~duration.throws
          /\ duration.className = ClassNone
          /\ duration.text = durationStr.s

\* ------------------------------------------------ what TreeViewContent draws

LoadingText   == "Loading..."
NoDataText    == "No data available"
CollapseLabel == "Collapse All"
ExpandLabel   == "Expand All"

\* TreeViewContent (lines 145-174): the label of its button, the indicator it
\* shows ("" for none) and the number of top-level TreeNodes it creates.
TreeViewContent(data, isLoading, expandAll) ==
  [button |-> IF expandAll THEN CollapseLabel ELSE ExpandLabel,
   status |-> IF isLoading THEN LoadingText
              ELSE IF HasItems(data) THEN "" ELSE NoDataText,
   rows   |-> IF ~isLoading /\ HasItems(data) THEN Len(data.nodes) ELSE 0]

\* The active view holds a TreeViewContent: the preset views always, the
\* custom view with data and not loading (lines 421-432).
TreeViewDrawn ==
  activeTab = "custom" => (~custom.loading /\ Len(custom.parsedData) > 0)

\* The props the active view gives its TreeViewContent.
TreeViewProps ==
  CASE activeTab = "application" -> app
    [] activeTab = "creation"    -> creation
    [] OTHER -> [data |-> ArrayDoc(custom.parsedData), isLoading |-> FALSE,
                 expandAll |-> custom.expandAll, pending |-> FALSE]

\* C14: TreeViewContent draws exactly one of three outputs: while loading the
\* loading indicator alone, without button or nodes; otherwise, with no items,
\* the empty-state indicator alone; otherwise the expand-all button, labelled
\* by the expand-all value, and one TreeNode per top-level item.
C14_OneOfThreeOutputs ==
  (TreeViewDrawn /\ ~crashed)
  => LET p == TreeViewProps
         v == TreeViewContent(p.data, p.isLoading, p.expandAll)
     IN IF p.isLoading
        THEN v = [button |-> "", status |-> LoadingText, rows |-> 0]
        ELSE IF ~HasItems(p.data)
        THEN v = [button |-> "", status |-> NoDataText, rows |-> 0]
        ELSE v = [button |-> IF p.expandAll THEN CollapseLabel ELSE ExpandLabel,
                  status |-> "", rows |-> Len(p.data.nodes)]

\* The failure message the active view shows, "" for none: the custom view has
\* the box of lines 415-419; the preset views draw their TreeViewContent alone
\* (lines 465-472, 624-630), which has no element for a message.
ViewMessage ==
  IF activeTab = "custom" THEN VisibleError(custom) ELSE ""

\* The loading flag of the active view.
ViewLoading ==
  CASE activeTab = "application" -> app.isLoading
    [] activeTab = "creation"    -> creation.isLoading
    [] OTHER                     -> custom.loading

\* C15: when a load of the active view (the URL fetch of the custom view, the
\* remote load of a preset view) has ended in a non-success response or a
\* transport error, the loading indicator is cleared and the view shows a
\* failure message.
C15_FailureReported ==
  (/\ ~crashed
   /\ lastEvent.k \in {"notok", "neterr"}
   /\ \/ lastEvent.op = "appLoad" /\ activeTab = "application"
      \/ lastEvent.op = "creationLoad" /\ activeTab = "creation"
      \/ lastEvent.op = "fetchDone" /\ activeTab = "custom")
  => /\ ~ViewLoading
     /\ ViewMessage # ""

\* The hundredth nearest to d thousandths, and h hundredths written with two
\* decimals.
Nearest(d) == (d + 5) \div 10

TwoDecimals(h) ==
  LET a == IF h < 0 THEN 0 - h ELSE h
  IN (IF h < 0 THEN <<"-">> ELSE <<>>)
       \o NatText(a \div 100) \o <<".">> \o PadText(a % 100, 2)

\* The node processNode was given had the number d / 1000 as its duration, and
\* the duration processNode left has been formatted.
NumberShown(d) ==
  /\ duration.done
  /\ lastEvent.op = "processNode"
  /\ lastEvent.doc.nodes[1].duration = Number(d)

\* C16 as stated: a numeric duration d of the JSON is displayed as d rounded to
\* two decimals followed by "ms", with the class the thresholds give d itself.
C16_ClassOfNumber ==
  \A d \in Thousandths :
    NumberShown(d)
    => /\ ~duration.throws
       /\ duration.text = TwoDecimals(Nearest(d)) \o <<"m", "s">>
       /\ duration.className = TierOf(d \div 10)

\* C16 amended: a numeric duration d of the JSON is displayed as d rounded to
\* two decimals followed by "ms", with the class the thresholds give the
\* rounded value, the one displayed.
C16_ClassOfRounded ==
  \A d \in Thousandths :
    NumberShown(d)
    => /\ ~duration.throws
       /\ duration.text = TwoDecimals(Nearest(d)) \o <<"m", "s">>
       /\ duration.className = TierOf(Nearest(d))

\* 99.996 has been processed and drawn: "100.00ms", moderate.
C16_Witness ==
  /\ NumberShown(99996)
  /\ duration.text = <<"1", "0", "0", ".", "0", "0", "m", "s">>
  /\ duration.className = ClassModerate

\* C17: processNode is idempotent: applied once more to the tree it left in
\* parsedData, it gives that tree again, the same duration text, name and
\* children at every depth.
C17_Idempotent ==
  \A i \in 1..Len(custom.parsedData) :
    processNode(custom.parsedData[i]) = custom.parsedData[i]

\* The tree of {"duration":12.5,"children":[{"duration":99.996}]} is in
\* parsedData: texts and names processNode made, one level of children.
C17_Witness ==
  /\ Len(custom.parsedData) = 1
  /\ custom.parsedData[1].duration = Str(<<"1", "2", ".", "5", "0", "m", "s">>)
  /\ custom.parsedData[1].name = Str(UnnamedNode)
  /\ custom.parsedData[1].children.k = "array"
  /\ custom.parsedData[1].children.items[1].duration
       = Str(<<"1", "0", "0", ".", "0", "0", "m", "s">>)

\* ------------------------------------- one tree, its toggles on record

\* The tree of SpecOverride: two levels fewer than that of SpecTree.
OverrideDoc == ArrayDoc(<<DeepNode(TreeDepth - 2), Twig>>)

\* A click on the row of the TreeNode instance p, put on record.
ClickRecorded(p) ==
  /\ onClick(p)
  /\ RecordToggle(Handler(ViewItems, BubblePath(p)))

NextOverride ==
  \/ AppLoadDone(OkResponse(OverrideDoc))
  \/ \E p \in DOMAIN expanded : ClickRecorded(p)
  \/ SetExpandAll

SpecOverride == Init /\ [][NextOverride]_vars

\* The nodes with children the program shows expanded.
ShownExpanded ==
  {p \in DOMAIN expanded : expanded[p] /\ NonEmptyChildren(ItemAt(ViewItems, p))}

\* The nodes with children the override model shows expanded: those whose
\* flag by the record is set, as is that of each of their ancestors.
ModelExpanded ==
  {p \in AllPaths(ViewItems, <<>>) :
     /\ NonEmptyChildren(ItemAt(ViewItems, p))
     /\ \A n \in 1..Len(p) : Effective(SubSeq(p, 1, n))}

\* C18: after every sequence of clicks on rows and on the expand-all button on
\* one tree, the nodes shown expanded are those of the override model: a node
\* follows its own toggles when they came after the last expand-all change,
\* the expand-all value otherwise.
C18_OverrideModel ==
  ~crashed => ShownExpanded = ModelExpanded

\* The text carries the wrapper syntax of one of the three markers.
CarriesWrapper(s) ==
  \E tag \in Tags : Includes(s, SpanOpen(tag)) /\ Includes(s, SpanClose)

\* C19: formatDuration takes the marker short-circuit exactly for the strings
\* that carry the wrapper syntax of error, warn or orange, which get the class
\* of their tag; every other string, whatever words it contains, gets the
\* class of the thresholds on its magnitude and is returned as it is.
C19_MarkerIsWrapper ==
  (duration.done /\ durationStr.k = "string" /\ durationStr.s # <<>>)
  => IF CarriesWrapper(durationStr.s)
     THEN \E tag \in Tags : /\ Includes(durationStr.s, SpanOpen(tag))
                            /\ duration.className = TagClass(tag)
     ELSE /\ duration.text = durationStr.s
          /\ duration.className = ClassOf(extractTimeInMs(durationStr.s))

\* C20: in the custom view a response of a fetch that was started before the
\* latest Display or Clear does not touch the tree: when the event handled
\* last is a Display or a Clear, a fetch response that arrives next (its fetch
\* was started earlier) leaves parsedData as that Display or Clear left it.
C20_LateResponseIgnored ==
  [][(lastEvent.op \in {"display", "reset"} /\ lastEvent'.op = "fetchDone")
       => custom'.parsedData = custom.parsedData]_vars

\* The requests of the mounted CustomTabContent that have not completed.
Outstanding == {i \in 1..Len(fetches) : ~fetches[i].orphan}

\* C21: in the custom view loading is true in every state in which a fetch
\* that the mounted view started has not completed, also when several fetches
\* overlap.
C21_LoadingWhileOutstanding ==
  (activeTab = "custom" /\ ~crashed /\ Outstanding # {}) => custom.loading

\* C22: in the custom view the error message and a tree are never shown
\* together: showError implies that parsedData is empty.
C22_ErrorOrTree ==
  (activeTab = "custom" /\ ~crashed /\ custom.showError)
  => custom.parsedData = <<>>

\* C23: an edit of the URL field changes the value of the field and nothing
\* else in the custom view: no request is issued, and the field holds the
\* value typed, also after a URL has been loaded.
C23_EditIssuesNoRequest ==
  [][\A url \in Urls \cup {NoUrl} :
       SetUrl(url)
       => /\ fetches' = fetches
          /\ custom' = [custom EXCEPT !.urlValue = url]
          /\ customUrlParam' = customUrlParam]_vars

\* --------------------------------------- the custom view and two URLs

UrlA == <<"u">>
UrlB == <<"v">>

\* A response arrives for request i, a tree; one request more than in Spec
\* may be in flight.
Arrival(i) == FetchDoneWithin(i, OkResponse(PlainDoc), MaxInFlight + 1)

\* The user acts on the custom view.
UserAction ==
  \/ TabChange("custom")
  \/ SetInput(JsonText(PlainDoc))
  \/ \E url \in {UrlA, UrlB, NoUrl} : SetUrl(url)
  \/ Fetch
  \/ Reset

NextSettle ==
  \/ UserAction
  \/ \E i \in 1..(MaxInFlight + 1) : Arrival(i)

\* The response of the oldest request in flight arrives, so every response
\* does.
SpecSettle == Init /\ [][NextSettle]_vars /\ WF_vars(Arrival(1))

\* C24: the custom view settles after a user action when every response
\* arrives: responses, and with them the requests the URL effect issues for
\* them, go on arriving for ever only if the user goes on acting for ever.
C24_Settles ==
  []<><<\E i \in 1..(MaxInFlight + 1) : Arrival(i)>>_vars
    => []<><<UserAction>>_vars

====
